---------------------------- MODULE Spec2Model ----------------------------
(***************************************************************************)
(* Model of regex_utils.py: the six string operations that build a lazy    *)
(* row function (a pyspark UDF) around the re2 engine, with a try/except   *)
(* that selects the python `re` engine when building the UDF raises.       *)
(*                                                                         *)
(* A python str is a sequence of one-character strings.  The two regex     *)
(* libraries are modelled by a parser and a leftmost-first matcher over a  *)
(* small dialect: literals, ".", "^", "$", "|", "+", capture groups,       *)
(* backslash escapes and numeric backreferences.                           *)
(***************************************************************************)
EXTENDS Integers, Sequences, FiniteSets, TLC

(* ------------------------------ bounds --------------------------------- *)
MaxLen == 3      \* longest row string
MaxLit == 2      \* longest literal given to startswith / endswith
MaxLimit == 2    \* largest split limit
MaxIdx == 2      \* largest group index asked of regexp_extract

BS == "\\"
NL == "\n"
BEL == "BEL"     \* the character \a denotes; it is not in Alphabet
Alphabet == {"a", ",", ".", NL}
WordChars == {"a", "1", "2"}
Digits == {"1", "2"}
Quantifiers == {"+"}

RECURSIVE StringsUpTo(_)
StringsUpTo(n) ==
    IF n = 0 THEN {<<>>}
    ELSE LET S == StringsUpTo(n - 1)
         IN S \cup {Append(t, c) : t \in {u \in S : Len(u) = n - 1}, c \in Alphabet}

Rows == StringsUpTo(MaxLen)
Literals == StringsUpTo(MaxLit)

PyNone == <<"None">>     \* python None where a str is expected

(* the pattern texts the operations are called with *)
PComma == <<",">>
PA == <<"a">>
PDot == <<".">>
PPlus == <<"a", "+">>
PGroup == <<"(", "a", ")", "|", ",">>
PBackref == <<"(", "a", ")", BS, "1">>
PUnclosed == <<"(">>
PNothing == <<"+", "a">>
Patterns == {PComma, PA, PDot, PPlus, PGroup, PBackref, PUnclosed, PNothing}

(* the replacement texts regexp_replace is called with *)
Replacements == {<<>>, <<".">>, <<BS, "1">>, <<".", BS, "1">>}

(* --------------------------- pattern parser ---------------------------- *)
Fail == [ok |-> FALSE, node |-> [k |-> "empty"], pos |-> 0, ng |-> 0, bref |-> FALSE]
Parsed(node, pos, ng, bref) ==
    [ok |-> TRUE, node |-> node, pos |-> pos, ng |-> ng, bref |-> bref]

DigitVal(c) == IF c = "1" THEN 1 ELSE 2

(* a group: n is its number, r the parse of its body, which ")" must follow *)
CloseGroup(t, n, r) ==
    IF r.ok /\ r.pos <= Len(t) /\ t[r.pos] = ")"
    THEN Parsed([k |-> "group", n |-> n, x |-> r.node], r.pos + 1, r.ng, r.bref)
    ELSE Fail

(* a backslash at i: \N refers to a group that is already closed, \a is    *)
(* the bell character, a backslash before punctuation is that character    *)
ParseEscape(t, i, ng, open) ==
    IF i + 1 > Len(t) THEN Fail
    ELSE IF t[i + 1] \in Digits
    THEN IF DigitVal(t[i + 1]) \in (1..ng) \ open
         THEN Parsed([k |-> "bref", n |-> DigitVal(t[i + 1])], i + 2, ng, TRUE)
         ELSE Fail
    ELSE IF t[i + 1] = "a"
    THEN Parsed([k |-> "lit", c |-> BEL], i + 2, ng, FALSE)
    ELSE Parsed([k |-> "lit", c |-> t[i + 1]], i + 2, ng, FALSE)

(* an atom a and the quantifier that may follow it *)
Repeat(t, a) ==
    IF ~a.ok THEN Fail
    ELSE IF a.pos <= Len(t) /\ t[a.pos] \in Quantifiers
    THEN IF a.pos + 1 <= Len(t) /\ t[a.pos + 1] \in Quantifiers
         THEN Fail
         ELSE Parsed([k |-> "plus", x |-> a.node], a.pos + 1, a.ng, a.bref)
    ELSE a

Concat(l, r) ==
    IF ~r.ok THEN Fail
    ELSE Parsed([k |-> "cat", l |-> l.node, r |-> r.node], r.pos, r.ng, l.bref \/ r.bref)

Alternate(l, r) ==
    IF ~r.ok THEN Fail
    ELSE Parsed([k |-> "alt", l |-> l.node, r |-> r.node], r.pos, r.ng, l.bref \/ r.bref)

RECURSIVE ParseAlt(_, _, _, _), ParseAltRest(_, _, _), ParseCat(_, _, _, _),
          ParseCatRest(_, _, _), ParseAtom(_, _, _, _)

ParseAtom(t, i, ng, open) ==
    IF i > Len(t) THEN Fail
    ELSE CASE t[i] = "(" ->
                CloseGroup(t, ng + 1, ParseAlt(t, i + 1, ng + 1, open \cup {ng + 1}))
           [] t[i] = BS -> ParseEscape(t, i, ng, open)
           [] t[i] \in Quantifiers \cup {")"} -> Fail
           [] t[i] = "." -> Parsed([k |-> "any"], i + 1, ng, FALSE)
           [] t[i] = "^" -> Parsed([k |-> "bol"], i + 1, ng, FALSE)
           [] t[i] = "$" -> Parsed([k |-> "eol"], i + 1, ng, FALSE)
           [] OTHER -> Parsed([k |-> "lit", c |-> t[i]], i + 1, ng, FALSE)

ParseCatRest(t, open, l) ==
    IF ~l.ok THEN Fail ELSE Concat(l, ParseCat(t, l.pos, l.ng, open))

ParseCat(t, i, ng, open) ==
    IF i > Len(t) \/ t[i] \in {"|", ")"}
    THEN Parsed([k |-> "empty"], i, ng, FALSE)
    ELSE ParseCatRest(t, open, Repeat(t, ParseAtom(t, i, ng, open)))

ParseAltRest(t, open, l) ==
    IF ~l.ok THEN Fail
    ELSE IF l.pos <= Len(t) /\ t[l.pos] = "|"
    THEN Alternate(l, ParseAlt(t, l.pos + 1, l.ng, open))
    ELSE l

ParseAlt(t, i, ng, open) == ParseAltRest(t, open, ParseCat(t, i, ng, open))

Whole(t, r) == IF r.ok /\ r.pos = Len(t) + 1 THEN r ELSE Fail

Parse(t) == Whole(t, ParseAlt(t, 1, 0, {}))

(* what compiling a parsed pattern with engine eng gives: "ok", or the     *)
(* kind of pattern error the engine raises                                 *)
CompileParsed(eng, p) ==
    IF ~p.ok THEN "syntax"
    ELSE IF eng = "re2" /\ p.bref THEN "unsupported"
    ELSE "ok"

Compile(eng, t) == CompileParsed(eng, Parse(t))

NGroups(t) == Parse(t).ng

(* ------------------------------ matcher -------------------------------- *)
NoSpan == <<0, 0>>     \* a group that did not participate (positions are 1-based)
NoCaps(ng) == [g \in 1..ng |-> NoSpan]

Slice(s, b, e) == SubSeq(s, b, e - 1)     \* python s[b:e] with 1-based b, e

(* where "$" matches: re2 at the end of the text only, re also before a    *)
(* newline that ends the string                                            *)
AtEnd(eng, s, i) ==
    \/ i = Len(s) + 1
    \/ eng = "re" /\ i = Len(s) /\ s[i] = NL

Capture(rs, n, i) ==
    [j \in 1..Len(rs) |-> <<rs[j][1], [rs[j][2] EXCEPT ![n] = <<i, rs[j][1]>>]>>]

Backref(s, i, caps, sp) ==
    IF sp # NoSpan /\ i + (sp[2] - sp[1]) <= Len(s) + 1
       /\ Slice(s, i, i + (sp[2] - sp[1])) = Slice(s, sp[1], sp[2])
    THEN << <<i + (sp[2] - sp[1]), caps>> >> ELSE <<>>

RECURSIVE M(_, _, _, _, _), MSeq(_, _, _, _), MPlus(_, _, _, _, _)

(* every way node matches s from position i, best first: <<end, caps>> *)
M(eng, node, s, i, caps) ==
    CASE node.k = "empty" -> << <<i, caps>> >>
      [] node.k = "lit" ->
           IF i <= Len(s) /\ s[i] = node.c THEN << <<i + 1, caps>> >> ELSE <<>>
      [] node.k = "any" ->
           IF i <= Len(s) /\ s[i] # NL THEN << <<i + 1, caps>> >> ELSE <<>>
      [] node.k = "bol" -> IF i = 1 THEN << <<i, caps>> >> ELSE <<>>
      [] node.k = "eol" -> IF AtEnd(eng, s, i) THEN << <<i, caps>> >> ELSE <<>>
      [] node.k = "bref" -> Backref(s, i, caps, caps[node.n])
      [] OTHER ->
           MSeq(eng, node, s,
                << <<i, caps>> >>)

MSeq(eng, node, s, rs) ==
    IF rs = <<>> THEN <<>>
    ELSE (CASE node.k = "cat" ->
                 MSeq(eng, node.r, s, M(eng, node.l, s, Head(rs)[1], Head(rs)[2]))
            [] node.k = "alt" ->
                 MSeq(eng, node.l, s, <<Head(rs)>>) \o MSeq(eng, node.r, s, <<Head(rs)>>)
            [] node.k = "group" ->
                 Capture(MSeq(eng, node.x, s, <<Head(rs)>>), node.n, Head(rs)[1])
            [] node.k = "plus" ->
                 MPlus(eng, node, s, Head(rs)[1], MSeq(eng, node.x, s, <<Head(rs)>>))
            [] OTHER -> M(eng, node, s, Head(rs)[1], Head(rs)[2]))
         \o MSeq(eng, node, s, Tail(rs))

MPlus(eng, node, s, i, rs) ==
    IF rs = <<>> THEN <<>>
    ELSE (IF Head(rs)[1] > i THEN MSeq(eng, node, s, <<Head(rs)>>) ELSE <<>>)
           \o <<Head(rs)>> \o MPlus(eng, node, s, i, Tail(rs))

NoMatch == [found |-> FALSE, b |-> 0, e |-> 0, caps |-> <<>>]

RECURSIVE SearchFrom(_, _, _, _), FirstOf(_, _, _, _, _)
FirstOf(eng, p, s, pos, rs) ==
    IF rs # <<>>
    THEN [found |-> TRUE, b |-> pos, e |-> rs[1][1], caps |-> rs[1][2]]
    ELSE SearchFrom(eng, p, s, pos + 1)

(* the leftmost match of the parsed pattern p in s starting at or after pos *)
SearchFrom(eng, p, s, pos) ==
    IF pos > Len(s) + 1 THEN NoMatch
    ELSE FirstOf(eng, p, s, pos, M(eng, p.node, s, pos, NoCaps(p.ng)))

RECURSIVE FindAllFrom(_, _, _, _), FindNext(_, _, _, _)
FindNext(eng, p, s, m) ==
    IF ~m.found THEN <<>>
    ELSE IF m.e = Len(s) + 1 /\ m.b = m.e THEN <<m>>
    ELSE <<m>> \o FindAllFrom(eng, p, s, IF m.e = m.b THEN m.e + 1 ELSE m.e)

(* the matches finditer yields: after an empty match the scan moves on one *)
(* character                                                               *)
FindAllFrom(eng, p, s, pos) == FindNext(eng, p, s, SearchFrom(eng, p, s, pos))

(* ---------------- the library calls of the two engines ----------------- *)
Ok(v) == [status |-> "ok", value |-> v]
Raise(e) == [status |-> e, value |-> <<>>]
NoOut == [status |-> "none", value |-> <<>>]

SearchParsed(eng, p, s) ==
    IF CompileParsed(eng, p) # "ok" THEN Raise("error")
    ELSE Ok(SearchFrom(eng, p, s, 1))

(* re2.search(pattern, text) / re.search(pattern, string) *)
EngSearch(eng, t, s) == SearchParsed(eng, Parse(t), s)

GroupText(m, g, s) ==
    IF m.caps[g] = NoSpan THEN PyNone ELSE Slice(s, m.caps[g][1], m.caps[g][2])

RECURSIVE SplitLoop(_, _, _, _, _, _)
SplitLoop(s, ms, ng, end, n, maxsplit) ==
    IF ms = <<>> \/ (maxsplit > 0 /\ n >= maxsplit)
    THEN <<Slice(s, end, Len(s) + 1)>>
    ELSE <<Slice(s, end, Head(ms).b)>> \o [g \in 1..ng |-> GroupText(Head(ms), g, s)]
           \o SplitLoop(s, Tail(ms), ng, Head(ms).e, n + 1, maxsplit)

SplitParsed(eng, p, s, maxsplit) ==
    IF CompileParsed(eng, p) # "ok" THEN Raise("error")
    ELSE Ok(SplitLoop(s, FindAllFrom(eng, p, s, 1), p.ng, 1, 0, maxsplit))

(* re2.split(pattern, text, maxsplit) / re.split(pattern, string, maxsplit): *)
(* maxsplit counts splits, 0 meaning no bound                                *)
EngSplit(eng, t, s, maxsplit) == SplitParsed(eng, Parse(t), s, maxsplit)

RECURSIVE TemplateOk(_, _, _)
(* whether the replacement template r is accepted for a pattern of ng       *)
(* groups: a reference to a group the pattern does not declare, or a        *)
(* backslash that ends r, is an error                                       *)
TemplateOk(r, i, ng) ==
    IF i > Len(r) THEN TRUE
    ELSE IF r[i] # BS THEN TemplateOk(r, i + 1, ng)
    ELSE IF i + 1 > Len(r) THEN FALSE
    ELSE IF r[i + 1] \in Digits
    THEN DigitVal(r[i + 1]) <= ng /\ TemplateOk(r, i + 2, ng)
    ELSE TemplateOk(r, i + 2, ng)

RECURSIVE ExpandLiteral(_, _, _, _)
ExpandLiteral(r, i, m, s) ==
    IF i > Len(r) THEN <<>> ELSE <<r[i]>> \o ExpandLiteral(r, i + 1, m, s)

NoneAsEmpty(g) == IF g = PyNone THEN <<>> ELSE g

RECURSIVE Expand(_, _, _, _)
(* the text that replaces match m: \N is group N, empty if it took no part *)
Expand(r, i, m, s) ==
    IF i > Len(r) THEN <<>>
    ELSE IF r[i] # BS THEN <<r[i]>> \o Expand(r, i + 1, m, s)
    ELSE (IF r[i + 1] \in Digits THEN NoneAsEmpty(GroupText(m, DigitVal(r[i + 1]), s))
          ELSE IF r[i + 1] = BS THEN <<BS>>
          ELSE IF r[i + 1] = "a" THEN <<BEL>>
          ELSE <<BS, r[i + 1]>>)
         \o Expand(r, i + 2, m, s)

RECURSIVE SubLoop(_, _, _, _)
SubLoop(s, ms, r, end) ==
    IF ms = <<>> THEN Slice(s, end, Len(s) + 1)
    ELSE Slice(s, end, Head(ms).b) \o Expand(r, 1, Head(ms), s)
           \o SubLoop(s, Tail(ms), r, Head(ms).e)

SubParsed(eng, p, r, s) ==
    IF CompileParsed(eng, p) # "ok" THEN Raise("error")
    ELSE IF ~TemplateOk(r, 1, p.ng) THEN Raise("error")
    ELSE Ok(SubLoop(s, FindAllFrom(eng, p, s, 1), r, 1))

(* re2.sub(pattern, repl, text) / re.sub(pattern, repl, string) *)
EngSub(eng, t, r, s) == SubParsed(eng, Parse(t), r, s)

(* Match.group(idx) *)
MatchGroupLenient(m, idx, ng, s) ==
    IF idx \notin 0..ng THEN Ok(<<>>)
    ELSE IF idx = 0 THEN Ok(Slice(s, m.b, m.e))
    ELSE Ok(GroupText(m, idx, s))

MatchGroup(m, idx, ng, s) ==
    IF idx \notin 0..ng THEN Raise("IndexError")
    ELSE IF idx = 0 THEN Ok(Slice(s, m.b, m.e))
    ELSE Ok(GroupText(m, idx, s))

RECURSIVE Re2Escape(_)
(* re2.escape: a backslash before every character that is not a word character *)
Re2Escape(t) ==
    IF t = <<>> THEN <<>>
    ELSE (IF Head(t) \in WordChars THEN <<Head(t)>> ELSE <<BS, Head(t)>>)
           \o Re2Escape(Tail(t))

ReSpecial == {".", NL, "(", ")", "|", "+", "^", "$", BS}
RECURSIVE ReEscape(_)
(* re.escape: a backslash before the special characters only *)
ReEscape(t) ==
    IF t = <<>> THEN <<>>
    ELSE (IF Head(t) \in ReSpecial THEN <<BS, Head(t)>> ELSE <<Head(t)>>)
           \o ReEscape(Tail(t))

Escape(eng, t) == IF eng = "re2" THEN Re2Escape(t) ELSE ReEscape(t)

(* ------------------------------- state --------------------------------- *)
(* pc:  "idle", "column" (a call returned its Column), "row" (the Column   *)
(*      was evaluated on a row), "raised" (the call raised)                *)
(* col: the Column the last call returned: the row function's closure      *)
(* row: the row string the Column was evaluated on                         *)
(* out: what that evaluation gave: a value, or the exception raised        *)
VARIABLES pc, col, row, out

vars == <<pc, col, row, out>>

NoCol == [op |-> "none", engine |-> "none", pattern |-> <<>>, limit |-> 0,
          maxsplit |-> 0, idx |-> 0, replacement |-> <<>>, other |-> <<>>]

PatternOps == {"split", "regexp_replace", "regexp_extract", "rlike"}

Init ==
    /\ pc = "idle"
    /\ col = NoCol
    /\ row = <<>>
    /\ out = NoOut

(* lines 45-46 *)
NormaliseLimitToOne(limit) == IF limit <= 0 THEN 1 ELSE limit

NormaliseLimit(limit) == IF limit <= 0 THEN 0 ELSE limit

(* The try / except around the construction of the row function.  Nothing  *)
(* in the try block looks at the pattern: partial() and F.udf() only wrap  *)
(* the engine's function.  exc1 is whether building the re2 row function   *)
(* raised (anything: the except is bare), exc2 whether building the re one *)
(* in the except block raised, which then reaches the caller.              *)
SelectEngine(exc1, exc2) ==
    IF ~exc1 THEN "re2" ELSE IF ~exc2 THEN "re" ELSE "raise"

(* what the call gives back: the Column built around engine eng, or the    *)
(* exception of the except block                                           *)
Returned(c, eng) == IF eng = "raise" THEN NoCol ELSE [c EXCEPT !.engine = eng]
After(eng) == IF eng = "raise" THEN "raised" ELSE "column"

(* A call resets row and out, and the row function is pure, so a call made *)
(* after a row was evaluated gives the same Column as the call made before *)
(* it: calls are taken from the states that hold no row result.            *)
split ==
    /\ pc # "row"
    /\ \E pattern \in Patterns, limit \in -1..MaxLimit, exc1 \in BOOLEAN, exc2 \in BOOLEAN :
        /\ col' = Returned([NoCol EXCEPT !.op = "split", !.pattern = pattern,
                                         !.limit = limit,
                                         !.maxsplit = NormaliseLimit(limit)],
                           SelectEngine(exc1, exc2))
        /\ pc' = After(SelectEngine(exc1, exc2))
    /\ row' = <<>>
    /\ out' = NoOut

regexp_replace ==
    /\ pc # "row"
    /\ \E pattern \in Patterns, replacement \in Replacements,
          exc1 \in BOOLEAN, exc2 \in BOOLEAN :
        /\ col' = Returned([NoCol EXCEPT !.op = "regexp_replace", !.pattern = pattern,
                                         !.replacement = replacement],
                           SelectEngine(exc1, exc2))
        /\ pc' = After(SelectEngine(exc1, exc2))
    /\ row' = <<>>
    /\ out' = NoOut

regexp_extract ==
    /\ pc # "row"
    /\ \E pattern \in Patterns, idx \in 0..MaxIdx, exc1 \in BOOLEAN, exc2 \in BOOLEAN :
        /\ col' = Returned([NoCol EXCEPT !.op = "regexp_extract", !.pattern = pattern,
                                         !.idx = idx],
                           SelectEngine(exc1, exc2))
        /\ pc' = After(SelectEngine(exc1, exc2))
    /\ row' = <<>>
    /\ out' = NoOut

rlike ==
    /\ pc # "row"
    /\ \E other \in Patterns, exc1 \in BOOLEAN, exc2 \in BOOLEAN :
        /\ col' = Returned([NoCol EXCEPT !.op = "rlike", !.pattern = other],
                           SelectEngine(exc1, exc2))
        /\ pc' = After(SelectEngine(exc1, exc2))
    /\ row' = <<>>
    /\ out' = NoOut

startswith ==
    /\ pc # "row"
    /\ \E other \in Literals, exc1 \in BOOLEAN, exc2 \in BOOLEAN :
        /\ col' = Returned([NoCol EXCEPT !.op = "startswith", !.other = other],
                           SelectEngine(exc1, exc2))
        /\ pc' = After(SelectEngine(exc1, exc2))
    /\ row' = <<>>
    /\ out' = NoOut

endswith ==
    /\ pc # "row"
    /\ \E other \in Literals, exc1 \in BOOLEAN, exc2 \in BOOLEAN :
        /\ col' = Returned([NoCol EXCEPT !.op = "endswith", !.other = other],
                           SelectEngine(exc1, exc2))
        /\ pc' = After(SelectEngine(exc1, exc2))
    /\ row' = <<>>
    /\ out' = NoOut

(* ----------------------- the row functions (UDFs) ----------------------- *)
split_udf(c, s) == EngSplit(c.engine, c.pattern, s, c.maxsplit)

regexp_replace_udf(c, s) == EngSub(c.engine, c.pattern, c.replacement, s)

GroupOf(res, idx, ng, s) ==
    IF res.status # "ok" THEN res
    ELSE IF res.value.found THEN MatchGroup(res.value, idx, ng, s)
    ELSE Ok(<<>>)

get_group_parsed(c, p, s) == GroupOf(SearchParsed(c.engine, p, s), c.idx, p.ng, s)

get_group(c, s) == get_group_parsed(c, Parse(c.pattern), s)

IsNotNone(res) == IF res.status # "ok" THEN res ELSE Ok(res.value.found)

rlike_udf(c, s) == IsNotNone(EngSearch(c.engine, c.pattern, s))

startswith_udf(c, s) ==
    IsNotNone(EngSearch(c.engine, <<"^">> \o Escape(c.engine, c.other), s))

endswith_udf(c, s) ==
    IsNotNone(EngSearch(c.engine, Escape(c.engine, c.other) \o <<"$">>, s))

Udf(c, s) ==
    CASE c.op = "split" -> split_udf(c, s)
      [] c.op = "regexp_replace" -> regexp_replace_udf(c, s)
      [] c.op = "regexp_extract" -> get_group(c, s)
      [] c.op = "rlike" -> rlike_udf(c, s)
      [] c.op = "startswith" -> startswith_udf(c, s)
      [] c.op = "endswith" -> endswith_udf(c, s)

(* the columnar runtime applies the Column's row function to one row; the  *)
(* function is pure, so one row per Column shows all it can give           *)
EvalRow ==
    /\ pc = "column"
    /\ \E s \in Rows :
        /\ row' = s
        /\ out' = Udf(col, s)
    /\ pc' = "row"
    /\ UNCHANGED col

Next ==
    \/ split
    \/ regexp_replace
    \/ regexp_extract
    \/ rlike
    \/ startswith
    \/ endswith
    \/ EvalRow

Spec == Init /\ [][Next]_vars

(* --------------------------- plain-text notions -------------------------- *)
IsPrefix(t, s) == Len(t) <= Len(s) /\ SubSeq(s, 1, Len(t)) = t
IsSuffix(t, s) == Len(t) <= Len(s) /\ SubSeq(s, Len(s) - Len(t) + 1, Len(s)) = t
Occurs(t, s) == \E i \in 1..(Len(s) + 1) : IsPrefix(t, SubSeq(s, i, Len(s)))

RECURSIVE Join(_, _)
Join(pieces, d) ==
    IF Len(pieces) = 0 THEN <<>>
    ELSE IF Len(pieces) = 1 THEN pieces[1]
    ELSE pieces[1] \o d \o Join(Tail(pieces), d)

Meta == {".", "(", ")", "|", "+", "^", "$", BS}
IsPlainLiteral(t) == t # <<>> /\ \A i \in 1..Len(t) : t[i] \notin Meta

Spans(c, s) == FindAllFrom(c.engine, Parse(c.pattern), s, 1)
Matches(c, s) == SearchFrom(c.engine, Parse(c.pattern), s, 1).found
FirstMatch(c, s) == SearchFrom(c.engine, Parse(c.pattern), s, 1)

RECURSIVE Rebuild(_, _, _, _)
(* s with the j first spans of ms replaced by reps[1..j], up to the end of  *)
(* span j                                                                   *)
Rebuild(s, ms, reps, j) ==
    IF j = 0 THEN <<>>
    ELSE Rebuild(s, ms, reps, j - 1)
           \o Slice(s, IF j = 1 THEN 1 ELSE ms[j - 1].e, ms[j].b) \o reps[j]

Replaced(s, ms, reps) ==
    Rebuild(s, ms, reps, Len(ms))
      \o Slice(s, IF ms = <<>> THEN 1 ELSE ms[Len(ms)].e, Len(s) + 1)

BackslashFree(r) == \A i \in 1..Len(r) : r[i] # BS
(* r is plain text around one reference \N to a declared group *)
OneReference(r, ng) ==
    \E k \in 1..(Len(r) - 1) :
        /\ r[k] = BS /\ r[k + 1] \in Digits /\ DigitVal(r[k + 1]) <= ng
        /\ \A i \in 1..Len(r) : i \notin {k, k + 1} => r[i] # BS
ReferenceAt(r) == CHOOSE k \in 1..Len(r) : r[k] = BS
GroupOrEmpty(m, g, s) == IF m.caps[g] = NoSpan THEN <<>> ELSE Slice(s, m.caps[g][1], m.caps[g][2])
TemplateText(r, m, s) ==
    LET k == ReferenceAt(r) IN
    SubSeq(r, 1, k - 1) \o GroupOrEmpty(m, DigitVal(r[k + 1]), s) \o SubSeq(r, k + 2, Len(r))

Evaluated(o) == pc = "row" /\ col.op = o

(* -------------------------------- claims -------------------------------- *)

(* C1: split with limit > 0 returns at most `limit` elements, the last one *)
(* being the unsplit remainder of the row string.                          *)
C1_SplitAtMostLimit ==
    (Evaluated("split") /\ col.limit > 0 /\ out.status = "ok")
        => /\ Len(out.value) <= col.limit
           /\ IsSuffix(out.value[Len(out.value)], row)

(* C2: a pattern that is valid but unsupported by re2 (a backreference) is *)
(* evaluated by the fallback engine: the row evaluation raises no pattern  *)
(* error and gives the result the re engine gives.                         *)
C2_SilentFallback ==
    (pc = "row" /\ col.op \in PatternOps
       /\ Compile("re", col.pattern) = "ok" /\ Compile("re2", col.pattern) = "unsupported")
        => /\ out.status # "error"
           /\ out = Udf([col EXCEPT !.engine = "re"], row)

C4_ExtractGroupOrEmpty ==
    (Evaluated("regexp_extract") /\ col.idx <= NGroups(col.pattern)
       /\ Compile(col.engine, col.pattern) = "ok")
        => /\ out.status = "ok"
           /\ out.value # PyNone
           /\ out.value =
                IF ~Matches(col, row) THEN <<>>
                ELSE IF col.idx = 0
                THEN Slice(row, FirstMatch(col, row).b, FirstMatch(col, row).e)
                ELSE GroupOrEmpty(FirstMatch(col, row), col.idx, row)

(* C5 as stated: regexp_replace puts the replacement text, taken literally *)
(* even when it contains \1, in the place of every match span.             *)
C5_LiteralReplacement ==
    (Evaluated("regexp_replace") /\ out.status = "ok")
        => out.value = Replaced(row, Spans(col, row),
                                [j \in 1..Len(Spans(col, row)) |-> col.replacement])

(* C5 amended: regexp_replace puts, in the place of every non-overlapping  *)
(* match span, the replacement expanded as a template: text without a      *)
(* backslash is taken literally, and \N for a declared group N becomes the *)
(* text group N captured in that match (empty if it took no part); the     *)
(* unmatched and replaced segments are concatenated in original order.     *)
(* When the selected engine rejects the pattern the evaluation raises.     *)
C5_TemplateReplacement ==
    Evaluated("regexp_replace")
        => IF Compile(col.engine, col.pattern) # "ok" THEN out.status = "error" ELSE
           LET ms == Spans(col, row) IN
           /\ BackslashFree(col.replacement) =>
                out = Ok(Replaced(row, ms, [j \in 1..Len(ms) |-> col.replacement]))
           /\ OneReference(col.replacement, NGroups(col.pattern)) =>
                out = Ok(Replaced(row, ms,
                           [j \in 1..Len(ms) |-> TemplateText(col.replacement, ms[j], row)]))

C5_Witness ==
    /\ Evaluated("regexp_replace") /\ col.pattern = PGroup
    /\ col.replacement = <<".", BS, "1">> /\ row = <<"a", ",", NL>>
    /\ out = Ok(<<".", "a", ".", NL>>)

(* C6: startswith is true exactly when the literal is a plain-text prefix  *)
(* of the row string and endswith exactly when it is a plain-text suffix,  *)
(* also for a literal made of regex metacharacters.                        *)
C6_LiteralPrefixSuffix ==
    /\ Evaluated("startswith") => out = Ok(IsPrefix(col.other, row))
    /\ Evaluated("endswith") => out = Ok(IsSuffix(col.other, row))

(* C7: for a delimiter that is plain text (no metacharacter) and a limit   *)
(* <= 0, split cuts at every delimiter, keeps the empty strings between    *)
(* adjacent delimiters, and joining its elements with the delimiter gives  *)
(* the row string back.                                                    *)
C7_SplitJoinRoundTrip ==
    (Evaluated("split") /\ col.limit <= 0 /\ IsPlainLiteral(col.pattern))
        => /\ out.status = "ok"
           /\ Join(out.value, col.pattern) = row
           /\ \A i \in 1..Len(out.value) : ~Occurs(col.pattern, out.value[i])

C7_Witness ==
    /\ Evaluated("split") /\ col.limit = -1 /\ col.pattern = PComma
    /\ row = <<"a", ",", ",">>
    /\ out = Ok(<< <<"a">>, <<>>, <<>> >>)

(* C8: a pattern that fails to parse under either engine makes the call of *)
(* the operation itself fail: no Column is returned for it.                *)
C8_SyntaxErrorAtCall ==
    (pc \in {"column", "row"} /\ col.op \in PatternOps)
        => ~(Compile("re2", col.pattern) = "syntax" /\ Compile("re", col.pattern) = "syntax")

(* C9: two calls with the same pattern text select the same engine,        *)
(* whatever the operations and whatever happened in between.               *)
C9_SamePatternSameEngine ==
    [][(col.op \in PatternOps /\ col'.op \in PatternOps /\ col'.pattern = col.pattern)
         => col'.engine = col.engine]_vars

(* the pattern the re2 row function of Column c searches *)
EffectivePattern(c) ==
    CASE c.op = "startswith" -> <<"^">> \o Re2Escape(c.other)
      [] c.op = "endswith" -> Re2Escape(c.other) \o <<"$">>
      [] OTHER -> c.pattern

(* C10: the fallback engine is selected only when re2 classifies the       *)
(* pattern as an unsupported construct.                                    *)
C10_FallbackOnlyIfUnsupported ==
    (pc \in {"column", "row"} /\ col.engine = "re")
        => Compile("re2", EffectivePattern(col)) = "unsupported"

=============================================================================
